---- MODULE Spec2Model ----
(***************************************************************************)
(* The metrics store of pkg/metrics/store.go: the process-wide registry    *)
(* (defaultStore) that maps a metrics full name to a *metrics instance,    *)
(* its exclusion policy, the reader/writer mutex that guards both, and the *)
(* per-instance go-metrics registry of named instruments.                  *)
(*                                                                         *)
(* Strings are sequences of byte values, so that concatenation, the "."    *)
(* separator and the byte-wise order used by sort.Strings are modelled as  *)
(* the code computes them.  A Go map[string]string is a function; the      *)
(* order in which a range over it yields its keys is a separate,           *)
(* nondeterministic sequence.  Pointers to *metrics and to instruments are *)
(* indices into the heaps objs and insts.                                  *)
(***************************************************************************)
EXTENDS Integers, Sequences, FiniteSets, TLC

VARIABLES
    defaultStore,   \* the store: rejectAll, exclusionLabels, metrics, mutex
    objs,           \* heap of *metrics: typ, labels, the cached labelKeys and
                    \* labelVals, registry (name -> instrument), and whether a
                    \* ResetAll has dropped it from the store
    insts,          \* heap of go-metrics instruments: kind, the count or value n,
                    \* and the number of samples a histogram retains
    pc,             \* per goroutine: where it stands in the call it is making
    call,           \* per goroutine: the call being made (or last made) and its locals
    ret,            \* per goroutine: what the last call returned
    held,           \* per goroutine: the Metrics handle the caller keeps
    obs             \* per goroutine: rejectAll was set when its NewMetrics call began
                    \* and no ResetAll has completed since

vars == <<defaultStore, objs, insts, pc, call, ret, held, obs>>

(***************************************************************************)
(* Bounds of the model.                                                    *)
(***************************************************************************)
\* *metrics instances ever allocated
MaxGroups == 2
\* instruments ever allocated
MaxInstruments == 1
\* largest value an instrument is driven to
MaxCount == 1
\* label sets of up to this many keys are iterated in every order
MaxPermLen == 2
\* instruments ever allocated when two goroutines share the groups
MaxSharedInstruments == 2
\* observations made of one histogram
MaxObservations == 1000

\* the goroutines that call into the package
Procs == {"p1", "p2"}

None == "none"

(***************************************************************************)
(* Program constants.                                                      *)
(***************************************************************************)
maxLabelCount == 10

\* the byte '.'
Dot == 46

\* a reservoir ten times the size
reservoirSizeTenfold == 10 * 100

\* gometrics.NewUniformSample(100)
reservoirSize == 100

(***************************************************************************)
(* Strings.                                                                *)
(***************************************************************************)
Min(a, b) == IF a < b THEN a ELSE b

\* Go's < on strings: byte-wise lexicographic
StrLess(s, t) ==
    \E i \in 1..(Min(Len(s), Len(t)) + 1) :
        /\ \A j \in 1..(i - 1) : s[j] = t[j]
        /\ \/ i > Len(s) /\ i <= Len(t)
           \/ i <= Len(s) /\ i <= Len(t) /\ s[i] < t[i]

RECURSIVE InsertSorted(_, _)
InsertSorted(s, x) ==
    IF s = <<>> THEN <<x>>
    ELSE IF StrLess(x, Head(s)) THEN <<x>> \o s
    ELSE <<Head(s)>> \o InsertSorted(Tail(s), x)

RECURSIVE SortStringsFrom(_, _)
SortStringsFrom(done, rest) ==
    IF rest = <<>> THEN done
    ELSE SortStringsFrom(InsertSorted(done, Head(rest)), Tail(rest))

\* a sort that leaves the keys in the order the map yielded them
SortStringsNoSort(keys) == keys

\* sort.Strings(keys)
SortStrings(keys) == SortStringsFrom(<<>>, keys)

RECURSIVE JoinNoSep(_, _)
\* a join that leaves the separator out
JoinNoSep(elems, sep) ==
    IF elems = <<>> THEN <<>> ELSE elems[1] \o JoinNoSep(Tail(elems), sep)

RECURSIVE Join(_, _)
\* strings.Join(elems, sep)
Join(elems, sep) ==
    IF elems = <<>> THEN <<>>
    ELSE IF Len(elems) = 1 THEN elems[1]
    ELSE elems[1] \o sep \o Join(Tail(elems), sep)

(***************************************************************************)
(* Map iteration orders.                                                   *)
(***************************************************************************)
RECURSIVE SetToSeq(_)
SetToSeq(S) ==
    IF S = {} THEN <<>>
    ELSE LET x == CHOOSE y \in S : TRUE IN <<x>> \o SetToSeq(S \ {x})

Reverse(s) == [i \in 1..Len(s) |-> s[Len(s) + 1 - i]]

Rotate(s) == IF s = <<>> THEN s ELSE Tail(s) \o <<Head(s)>>

\* the orders in which a range over a map with key set S may yield the keys:
\* all of them for a small S, three different ones for a large S
IterOrders(S) ==
    IF Cardinality(S) <= MaxPermLen
    THEN {f \in [1..Cardinality(S) -> S] : \A i, j \in DOMAIN f : i # j => f[i] # f[j]}
    ELSE {SetToSeq(S), Reverse(SetToSeq(S)), Rotate(SetToSeq(S))}

(***************************************************************************)
(* Inputs: the types, label maps, exclusion lists and instrument names the *)
(* callers pass.  "a" is <<97>>, "b" <<98>>, and so on.                    *)
(***************************************************************************)
\* "a"
Types == {<<97>>}

\* {"b": "c", "d": "e"}
Labels2 == (<<98>> :> <<99>>) @@ (<<100>> :> <<101>>)

\* n labels "k": "v", "l": "v", ...
LabelsOfSize(n) == [k \in {<<106 + i>> : i \in 1..n} |-> <<118>>]

LabelInputs == {Labels2, LabelsOfSize(maxLabelCount), LabelsOfSize(maxLabelCount + 1)}

\* {"b": "c.d.e"}
LabelsDotted == (<<98>> :> <<99, 46, 100, 46, 101>>)

\* the label maps of 0 to 11 entries, and maps whose strings hold the separator
NameLabelInputs ==
    {LabelsOfSize(n) : n \in 0..(maxLabelCount + 1)} \cup {Labels2, LabelsDotted}

\* nil and {"z", "d"}
ExclusionInputs == {<<>>, <<(<<122>>), (<<100>>)>>}

\* "x"
InstrumentNames == {<<120>>}

InstrumentKinds == {"Counter", "Gauge", "Histogram"}

(***************************************************************************)
(* Values.                                                                 *)
(***************************************************************************)
NoCall == [op |-> None]

NoRet == [kind |-> None]

NoObs == FALSE

errLabelCountExceeded == [kind |-> "err"]

\* a pointer to objs[id]
MetricsRef(id) == [kind |-> "metrics", id |-> id]

\* a pointer to insts[id]
InstRef(id) == [kind |-> "inst", id |-> id]

\* the no-op Metrics of the exclusion path: it keeps no registry
NewNilMetrics(typ, labels) == [kind |-> "nil", typ |-> typ, labels |-> labels]

\* the no-op instrument a no-op Metrics hands out
NilInstrument(kind) == [kind |-> "nilinst", of |-> kind]

EmptyMap == <<>>

\* A slice is a header of several words: the pointer to the backing array
\* (nil, or the array it points to) and the length.
NilSlice == [nil |-> TRUE, array |-> <<>>, len |-> 0]

\* the slice a make and the appends that follow it leave
MakeSlice(elems) == [nil |-> FALSE, array |-> elems, len |-> Len(elems)]

\* the elements a slice header denotes
Elems(h) == SubSeq(h.array, 1, Min(h.len, Len(h.array)))

\* the words of a slice header
SliceWords == {"ptr", "len"}

\* the store of word w of the header new into the header h
StoreWord(h, new, w) ==
    IF w = "ptr" THEN [h EXCEPT !.nil = new.nil, !.array = new.array]
    ELSE [h EXCEPT !.len = new.len]

(***************************************************************************)
(* Pure functions of store.go.                                             *)
(***************************************************************************)
\* sortedLabels, ranging over the map in the order iter
sortedLabels(labels, iter) ==
    LET keys == SortStrings(iter)
    IN  [keys |-> keys, values |-> [i \in 1..Len(keys) |-> labels[keys[i]]]]

\* fullName, ranging over the map in the order iter
fullName(typ, labels, iter) ==
    LET sl == sortedLabels(labels, iter)
        pair == [i \in 1..Len(sl.keys) |-> sl.keys[i] \o <<Dot>> \o sl.values[i]]
    IN  typ \o <<Dot>> \o Join(pair, <<Dot>>)

\* len(labels) > maxLabelCount, off by one
labelCountExceededOffByOne(labels) == Cardinality(DOMAIN labels) >= maxLabelCount

\* len(labels) > maxLabelCount
labelCountExceeded(labels) == Cardinality(DOMAIN labels) > maxLabelCount

\* an exclusion check that excludes nothing
isExclusionNever(store, labels) == FALSE

\* an exclusion check that forgets the rejectAll flag
isExclusionNoRejectAll(store, labels) ==
    \E i \in DOMAIN store.exclusionLabels : store.exclusionLabels[i] \in DOMAIN labels

\* isExclusion, on the store as it is while the read lock is held
isExclusion(store, labels) ==
    \/ store.rejectAll
    \/ \E i \in DOMAIN store.exclusionLabels : store.exclusionLabels[i] \in DOMAIN labels

(***************************************************************************)
(* The reader/writer mutex of the store: one writer or any number of       *)
(* readers.  No operation of the store takes the mutex twice, so the       *)
(* preference sync.RWMutex gives a waiting writer over new readers only    *)
(* orders the waiters and is left out.                                     *)
(***************************************************************************)
CanRLock(store) == store.mutex.writer = None

CanLock(store) == store.mutex.writer = None /\ store.mutex.readers = {}

RLock(store, p) ==
    [store EXCEPT !.mutex = [writer |-> None, readers |-> store.mutex.readers \cup {p}]]

RUnlock(store, p) ==
    [store EXCEPT !.mutex = [writer |-> None, readers |-> store.mutex.readers \ {p}]]

Lock(store, p) == [store EXCEPT !.mutex = [writer |-> p, readers |-> {}]]

Unlock(store) == [store EXCEPT !.mutex = [writer |-> None, readers |-> {}]]

(***************************************************************************)
(* What the bodies of the store's operations do to the store.              *)
(***************************************************************************)
\* a store that forgets the entry it is given
storePutNothing(store, name, id) == store

\* a lookup that never finds an entry
storeHasNever(store, name) == FALSE

\* _, ok := defaultStore.metrics[name]
storeHas(store, name) == name \in DOMAIN store.metrics

\* defaultStore.metrics[name] = stats
storePut(store, name, id) ==
    [store EXCEPT !.metrics =
        [n \in DOMAIN store.metrics \cup {name} |->
            IF n = name THEN id ELSE store.metrics[n]]]

\* a SetStatsMatcher that lets a later all = false clear the flag
SetStatsMatcherStoreNotSticky(store, all, exclusions) ==
    [store EXCEPT !.rejectAll = all, !.exclusionLabels = exclusions]

\* a SetStatsMatcher that also drops the entries the new policy excludes
SetStatsMatcherStorePurge(store, all, exclusions) ==
    [store EXCEPT !.rejectAll = all \/ store.rejectAll,
                  !.exclusionLabels = exclusions,
                  !.metrics = EmptyMap]

\* the two assignments of SetStatsMatcher
SetStatsMatcherStore(store, all, exclusions) ==
    [store EXCEPT !.rejectAll = IF all THEN TRUE ELSE store.rejectAll,
                  !.exclusionLabels = exclusions]

\* a ResetAll that leaves the exclusion policy as it is
ResetAllStoreKeepPolicy(store) == [store EXCEPT !.metrics = EmptyMap]

\* the last three statements of ResetAll
ResetAllStore(store) ==
    [store EXCEPT !.metrics = EmptyMap, !.rejectAll = FALSE, !.exclusionLabels = <<>>]

\* a constructor that forgets the labels
newMetricsNoLabels(typ, labels) ==
    [typ |-> typ, labels |-> EmptyMap, labelKeys |-> NilSlice, labelVals |-> NilSlice,
     registry |-> EmptyMap, dropped |-> FALSE]

\* &metrics{typ: typ, labels: labels, registry: gometrics.NewRegistry()}
newMetrics(typ, labels) ==
    [typ |-> typ, labels |-> labels, labelKeys |-> NilSlice, labelVals |-> NilSlice,
     registry |-> EmptyMap, dropped |-> FALSE]

\* a copy that misses the last value the range yields
GetAllItemsButLast(store, iter) ==
    [i \in 1..(Len(iter) - 1) |-> store.metrics[iter[i]]]

\* the slice GetAll builds: the map's values, appended in the order iter in
\* which the range yields the keys
GetAllItems(store, iter) == [i \in 1..Len(iter) |-> store.metrics[iter[i]]]

\* an UnregisterAll that leaves the registry as it is
UnregisterAllNothing(m) == m

\* (s *metrics) UnregisterAll(): s.registry.UnregisterAll()
UnregisterAll(m) == [m EXCEPT !.registry = EmptyMap]

\* (s *metrics) Each(f): the (name, instrument) pairs f is called with
Each(m) == {<<k, m.registry[k]>> : k \in DOMAIN m.registry}

\* the *metrics instances the store's map points to
Stored(store) == {store.metrics[n] : n \in DOMAIN store.metrics}

(***************************************************************************)
(* The initial state: init() has built an empty store.                     *)
(***************************************************************************)
Init ==
    /\ defaultStore = [rejectAll |-> FALSE, exclusionLabels |-> <<>>,
                       metrics |-> EmptyMap,
                       mutex |-> [writer |-> None, readers |-> {}]]
    /\ objs = <<>>
    /\ insts = <<>>
    /\ pc = [p \in Procs |-> "idle"]
    /\ call = [p \in Procs |-> NoCall]
    /\ ret = [p \in Procs |-> NoRet]
    /\ held = [p \in Procs |-> NoRet]
    /\ obs = [p \in Procs |-> NoObs]

\* the goroutines that are inside a NewMetrics call that may still allocate
InNewMetrics ==
    {p \in Procs : pc[p] \in {"isExclusion", "NewMetricsLock", "NewMetrics"}}

(***************************************************************************)
(* NewMetrics(typ, labels)                                                 *)
(***************************************************************************)
\* the call, the label count check and, past it, isExclusion up to its
\* defaultStore.mutex.RLock()
NewMetricsCall(p, typ, labels) ==
    /\ pc[p] = "idle"
    /\ Len(objs) + Cardinality(InNewMetrics) < MaxGroups
    /\ labelCountExceeded(labels) \/ CanRLock(defaultStore)
    /\ call' = [call EXCEPT ![p] = [op |-> "NewMetrics", typ |-> typ, labels |-> labels]]
    /\ obs' = [obs EXCEPT ![p] = defaultStore.rejectAll]
    /\ IF labelCountExceeded(labels)
       THEN /\ ret' = [ret EXCEPT ![p] = errLabelCountExceeded]
            /\ UNCHANGED <<defaultStore, pc>>
       ELSE /\ ret' = [ret EXCEPT ![p] = NoRet]
            /\ defaultStore' = RLock(defaultStore, p)
            /\ pc' = [pc EXCEPT ![p] = "isExclusion"]
    /\ UNCHANGED <<objs, insts, held>>

\* isExclusion: the check, the deferred RUnlock, and the no-op return of NewMetrics
isExclusionBody(p) ==
    /\ pc[p] = "isExclusion"
    /\ defaultStore' = RUnlock(defaultStore, p)
    /\ IF isExclusion(defaultStore, call[p].labels)
       THEN /\ ret' = [ret EXCEPT ![p] = NewNilMetrics(call[p].typ, call[p].labels)]
            /\ held' = [held EXCEPT ![p] = NewNilMetrics(call[p].typ, call[p].labels)]
            /\ pc' = [pc EXCEPT ![p] = "idle"]
       ELSE /\ pc' = [pc EXCEPT ![p] = "NewMetricsLock"]
            /\ UNCHANGED <<ret, held>>
    /\ UNCHANGED <<objs, insts, call, obs>>

\* defaultStore.mutex.Lock()
NewMetricsLock(p) ==
    /\ pc[p] = "NewMetricsLock"
    /\ CanLock(defaultStore)
    /\ defaultStore' = Lock(defaultStore, p)
    /\ pc' = [pc EXCEPT ![p] = "NewMetrics"]
    /\ UNCHANGED <<objs, insts, call, ret, held, obs>>

\* check existence, else create and store; the deferred Unlock
NewMetricsBody(p) ==
    /\ pc[p] = "NewMetrics"
    /\ \E iter \in IterOrders(DOMAIN call[p].labels) :
        LET name == fullName(call[p].typ, call[p].labels, iter)
            id == Len(objs) + 1
        IN  /\ call' = [call EXCEPT ![p] =
                            [op |-> "NewMetrics", typ |-> call[p].typ,
                             labels |-> call[p].labels, iter |-> iter, name |-> name]]
            /\ IF storeHas(defaultStore, name)
               THEN /\ ret' = [ret EXCEPT ![p] = MetricsRef(defaultStore.metrics[name])]
                    /\ held' = [held EXCEPT ![p] = MetricsRef(defaultStore.metrics[name])]
                    /\ defaultStore' = Unlock(defaultStore)
                    /\ objs' = objs
               ELSE /\ objs' = Append(objs, newMetrics(call[p].typ, call[p].labels))
                    /\ defaultStore' = Unlock(storePut(defaultStore, name, id))
                    /\ ret' = [ret EXCEPT ![p] = MetricsRef(id)]
                    /\ held' = [held EXCEPT ![p] = MetricsRef(id)]
    /\ pc' = [pc EXCEPT ![p] = "idle"]
    /\ UNCHANGED <<insts, obs>>

(***************************************************************************)
(* SetStatsMatcher(all, exclusions)                                        *)
(***************************************************************************)
\* the call, up to its defaultStore.mutex.Lock()
SetStatsMatcherCall(p, all, exclusions) ==
    /\ pc[p] = "idle"
    /\ CanLock(defaultStore)
    /\ defaultStore' = Lock(defaultStore, p)
    /\ call' = [call EXCEPT ![p] =
                    [op |-> "SetStatsMatcher", all |-> all, exclusions |-> exclusions]]
    /\ ret' = [ret EXCEPT ![p] = NoRet]
    /\ obs' = [obs EXCEPT ![p] = NoObs]
    /\ pc' = [pc EXCEPT ![p] = "SetStatsMatcher"]
    /\ UNCHANGED <<objs, insts, held>>

\* the assignments and the deferred Unlock
SetStatsMatcherBody(p) ==
    /\ pc[p] = "SetStatsMatcher"
    /\ defaultStore' =
          Unlock(SetStatsMatcherStore(defaultStore, call[p].all, call[p].exclusions))
    /\ pc' = [pc EXCEPT ![p] = "idle"]
    /\ UNCHANGED <<objs, insts, call, ret, held, obs>>

(***************************************************************************)
(* GetAll()                                                                *)
(***************************************************************************)
\* the call, up to its defaultStore.mutex.RLock()
GetAllCall(p) ==
    /\ pc[p] = "idle"
    /\ CanRLock(defaultStore)
    /\ defaultStore' = RLock(defaultStore, p)
    /\ call' = [call EXCEPT ![p] = [op |-> "GetAll"]]
    /\ ret' = [ret EXCEPT ![p] = NoRet]
    /\ obs' = [obs EXCEPT ![p] = NoObs]
    /\ pc' = [pc EXCEPT ![p] = "GetAll"]
    /\ UNCHANGED <<objs, insts, held>>

\* the copy of the map's values, in the order the range yields them
GetAllBody(p) ==
    /\ pc[p] = "GetAll"
    /\ \E iter \in IterOrders(DOMAIN defaultStore.metrics) :
          ret' = [ret EXCEPT ![p] =
                    [kind |-> "list", items |-> GetAllItems(defaultStore, iter)]]
    /\ defaultStore' = RUnlock(defaultStore, p)
    /\ pc' = [pc EXCEPT ![p] = "idle"]
    /\ UNCHANGED <<objs, insts, call, held, obs>>

(***************************************************************************)
(* ResetAll()                                                              *)
(***************************************************************************)
\* the call, up to its defaultStore.mutex.Lock(); the range over the map starts
ResetAllCall(p) ==
    /\ pc[p] = "idle"
    /\ CanLock(defaultStore)
    /\ defaultStore' = Lock(defaultStore, p)
    /\ call' = [call EXCEPT ![p] = [op |-> "ResetAll", todo |-> DOMAIN defaultStore.metrics]]
    /\ ret' = [ret EXCEPT ![p] = NoRet]
    /\ obs' = [obs EXCEPT ![p] = NoObs]
    /\ pc' = [pc EXCEPT ![p] = "ResetAll"]
    /\ UNCHANGED <<objs, insts, held>>

\* one turn of the loop: m.UnregisterAll()
ResetAllUnregister(p) ==
    /\ pc[p] = "ResetAll"
    /\ \E name \in call[p].todo :
        /\ objs' = [objs EXCEPT ![defaultStore.metrics[name]] =
                                    UnregisterAll(objs[defaultStore.metrics[name]])]
        /\ call' = [call EXCEPT ![p].todo = @ \ {name}]
    /\ UNCHANGED <<defaultStore, insts, pc, ret, held, obs>>

\* after the loop: a new map, the policy cleared, the deferred Unlock
ResetAllBody(p) ==
    /\ pc[p] = "ResetAll"
    /\ call[p].todo = {}
    /\ defaultStore' = Unlock(ResetAllStore(defaultStore))
    /\ objs' = [id \in DOMAIN objs |->
                    IF id \in Stored(defaultStore)
                    THEN [objs[id] EXCEPT !.dropped = TRUE] ELSE objs[id]]
    /\ obs' = [q \in Procs |-> NoObs]
    /\ pc' = [pc EXCEPT ![p] = "idle"]
    /\ UNCHANGED <<insts, call, ret, held>>

(***************************************************************************)
(* Counter(key), Gauge(key), Histogram(key) on the Metrics the caller      *)
(* holds, and the use of the instrument returned.                          *)
(***************************************************************************)
\* an unrecovered panic ends the process: no goroutine takes another step
Panic == [q \in Procs |-> "panic"]

\* the x.(gometrics.Kind) assertion on what GetOrRegister returned
TypeAssert(inst, kind) == inst.kind = kind

\* a registry lookup that never finds the name
registryHasNever(reg, key) == FALSE

\* GetOrRegister's lookup of the name in the registry
registryHas(reg, key) == key \in DOMAIN reg

\* s.registry.GetOrRegister(key, newKind).(Kind): under the registry's own
\* mutex, the registry returns the instrument registered under key whatever
\* its kind, or registers a new one; at most cap instruments are allocated
GetOrRegister(p, kind, key, cap) ==
    /\ pc[p] = "idle"
    /\ held[p].kind \in {"metrics", "nil"}
    /\ call' = [call EXCEPT ![p] = [op |-> kind, key |-> key]]
    /\ obs' = [obs EXCEPT ![p] = NoObs]
    /\ IF held[p].kind = "nil"
       THEN /\ ret' = [ret EXCEPT ![p] = NilInstrument(kind)]
            /\ UNCHANGED <<objs, insts, pc>>
       ELSE LET reg == objs[held[p].id].registry
                id == Len(insts) + 1
            IN  IF registryHas(reg, key)
                THEN /\ IF TypeAssert(insts[reg[key]], kind)
                        THEN /\ ret' = [ret EXCEPT ![p] = InstRef(reg[key])]
                             /\ pc' = pc
                        ELSE /\ ret' = [ret EXCEPT ![p] = NoRet]
                             /\ pc' = Panic
                     /\ UNCHANGED <<objs, insts>>
                ELSE /\ Len(insts) < cap
                     /\ insts' = Append(insts, [kind |-> kind, n |-> 0, retained |-> 0])
                     /\ objs' = [objs EXCEPT ![held[p].id].registry =
                                    [k \in DOMAIN reg \cup {key} |->
                                        IF k = key THEN id ELSE reg[k]]]
                     /\ ret' = [ret EXCEPT ![p] = InstRef(id)]
                     /\ pc' = pc
    /\ UNCHANGED <<defaultStore, held>>

InstrumentCall(p, kind, key) == GetOrRegister(p, kind, key, MaxInstruments)

Counter(p, key) == InstrumentCall(p, "Counter", key)

Gauge(p, key) == InstrumentCall(p, "Gauge", key)

Histogram(p, key) == InstrumentCall(p, "Histogram", key)

\* Update of the uniform sample of a histogram: the observation is appended
\* while the reservoir is not full; after that it replaces a retained sample
\* chosen at random, or is dropped
UniformSampleUpdate(h) ==
    [h EXCEPT !.n = h.n + 1,
              !.retained = IF h.retained < reservoirSize
                           THEN h.retained + 1 ELSE h.retained]

\* Inc(1) on a counter, Update on a gauge or a histogram; n is the count or
\* the value
Update(inst) ==
    IF inst.kind = "Histogram" THEN UniformSampleUpdate(inst)
    ELSE [inst EXCEPT !.n = inst.n + 1]

\* the caller uses the instrument it was handed
InstrumentUpdate(p) ==
    /\ pc[p] = "idle"
    /\ ret[p].kind = "inst"
    /\ insts[ret[p].id].n < MaxCount
    /\ insts' = [insts EXCEPT ![ret[p].id] = Update(insts[ret[p].id])]
    /\ UNCHANGED <<defaultStore, objs, pc, call, ret, held, obs>>

\* the caller makes one more observation of the histogram it was handed
HistogramUpdate(p) ==
    /\ pc[p] = "idle"
    /\ ret[p].kind = "inst"
    /\ insts[ret[p].id].kind = "Histogram"
    /\ insts[ret[p].id].n < MaxObservations
    /\ insts' = [insts EXCEPT ![ret[p].id] = Update(insts[ret[p].id])]
    /\ UNCHANGED <<defaultStore, objs, pc, call, ret, held, obs>>

\* the same on a no-op instrument: the operation is discarded
NilInstrumentUpdate(p) ==
    /\ pc[p] = "idle"
    /\ ret[p].kind = "nilinst"
    /\ UNCHANGED vars

(***************************************************************************)
(* SortedLabels() on the Metrics the caller holds.  The method takes no    *)
(* lock: its reads and writes of labelKeys and labelVals race with those   *)
(* of other callers.  The assignment of a slice stores the words of its    *)
(* header one at a time, in an order the build chooses, and a racing read  *)
(* sees the words stored so far.                                           *)
(***************************************************************************)
\* if s.labelKeys != nil && s.labelVals != nil
SortedLabelsCall(p) ==
    /\ pc[p] = "idle"
    /\ held[p].kind = "metrics"
    /\ call' = [call EXCEPT ![p] = [op |-> "SortedLabels"]]
    /\ ret' = [ret EXCEPT ![p] = NoRet]
    /\ obs' = [obs EXCEPT ![p] = NoObs]
    /\ pc' = [pc EXCEPT ![p] =
                IF ~objs[held[p].id].labelKeys.nil /\ ~objs[held[p].id].labelVals.nil
                THEN "SortedLabelsCached" ELSE "SortedLabelsCompute"]
    /\ UNCHANGED <<defaultStore, objs, insts, held>>

\* return s.labelKeys, s.labelVals
SortedLabelsCached(p) ==
    /\ pc[p] = "SortedLabelsCached"
    /\ ret' = [ret EXCEPT ![p] =
                 [kind |-> "sorted",
                  keys |-> Elems(objs[held[p].id].labelKeys),
                  values |-> Elems(objs[held[p].id].labelVals)]]
    /\ pc' = [pc EXCEPT ![p] = "idle"]
    /\ UNCHANGED <<defaultStore, objs, insts, call, held, obs>>

\* keys, values = sortedLabels(s.labels)
SortedLabelsCompute(p) ==
    /\ pc[p] = "SortedLabelsCompute"
    /\ \E iter \in IterOrders(DOMAIN objs[held[p].id].labels) :
          LET sl == sortedLabels(objs[held[p].id].labels, iter)
          IN  call' = [call EXCEPT ![p] =
                          [op |-> "SortedLabels", keys |-> sl.keys,
                           values |-> sl.values, pending |-> SliceWords]]
    /\ pc' = [pc EXCEPT ![p] = "SortedLabelsStoreKeys"]
    /\ UNCHANGED <<defaultStore, objs, insts, ret, held, obs>>

\* s.labelKeys = keys, one word of the header at a time
SortedLabelsStoreKeys(p) ==
    /\ pc[p] = "SortedLabelsStoreKeys"
    /\ \E w \in call[p].pending :
          /\ objs' = [objs EXCEPT ![held[p].id].labelKeys =
                          StoreWord(@, MakeSlice(call[p].keys), w)]
          /\ IF call[p].pending = {w}
             THEN /\ call' = [call EXCEPT ![p].pending = SliceWords]
                  /\ pc' = [pc EXCEPT ![p] = "SortedLabelsStoreVals"]
             ELSE /\ call' = [call EXCEPT ![p].pending = @ \ {w}]
                  /\ pc' = pc
    /\ UNCHANGED <<defaultStore, insts, ret, held, obs>>

\* s.labelVals = values, one word of the header at a time; return
SortedLabelsStoreVals(p) ==
    /\ pc[p] = "SortedLabelsStoreVals"
    /\ \E w \in call[p].pending :
          /\ objs' = [objs EXCEPT ![held[p].id].labelVals =
                          StoreWord(@, MakeSlice(call[p].values), w)]
          /\ call' = [call EXCEPT ![p].pending = @ \ {w}]
          /\ IF call[p].pending = {w}
             THEN /\ ret' = [ret EXCEPT ![p] =
                              [kind |-> "sorted", keys |-> call[p].keys,
                               values |-> call[p].values]]
                  /\ pc' = [pc EXCEPT ![p] = "idle"]
             ELSE UNCHANGED <<ret, pc>>
    /\ UNCHANGED <<defaultStore, insts, held, obs>>

(***************************************************************************)
(* The specifications.                                                     *)
(***************************************************************************)
\* a step of goroutine p in one of the store's operations
StoreStep(p) ==
    \/ \E typ \in Types, labels \in LabelInputs : NewMetricsCall(p, typ, labels)
    \/ isExclusionBody(p)
    \/ NewMetricsLock(p)
    \/ NewMetricsBody(p)
    \/ \E all \in BOOLEAN, exclusions \in ExclusionInputs :
          SetStatsMatcherCall(p, all, exclusions)
    \/ SetStatsMatcherBody(p)
    \/ GetAllCall(p)
    \/ GetAllBody(p)
    \/ ResetAllCall(p)
    \/ ResetAllUnregister(p)
    \/ ResetAllBody(p)

\* a step of goroutine p on the instruments of the Metrics it holds
InstrumentStep(p) ==
    \/ \E key \in InstrumentNames : Counter(p, key)
    \/ \E key \in InstrumentNames : Gauge(p, key)
    \/ \E key \in InstrumentNames : Histogram(p, key)
    \/ InstrumentUpdate(p)
    \/ NilInstrumentUpdate(p)

\* the goroutines call the store's operations in every interleaving
Next == \E p \in Procs : StoreStep(p)

Spec == Init /\ [][Next]_vars

\* one goroutine calls the store's operations and uses the instruments
Caller == "p1"

NextUse == StoreStep(Caller) \/ InstrumentStep(Caller)

SpecUse == Init /\ [][NextUse]_vars

\* a step of goroutine p that asks the Metrics it holds for an instrument,
\* of any kind, when two goroutines share the groups
SharedInstrument(p) ==
    \E kind \in InstrumentKinds, key \in InstrumentNames :
        GetOrRegister(p, kind, key, MaxSharedInstruments)

\* two goroutines create groups and create and use the instruments of the
\* groups they hold, in every interleaving
ShareStep(p) ==
    \/ \E typ \in Types, labels \in LabelInputs : NewMetricsCall(p, typ, labels)
    \/ isExclusionBody(p)
    \/ NewMetricsLock(p)
    \/ NewMetricsBody(p)
    \/ SharedInstrument(p)
    \/ InstrumentUpdate(p)

NextShare == \E p \in Procs : ShareStep(p)

SpecShare == Init /\ [][NextShare]_vars

\* s.Histogram(key) where one histogram in all is allocated, so that every
\* observation of the run falls on that histogram
ObservedHistogram(p) ==
    \E key \in InstrumentNames : GetOrRegister(p, "Histogram", key, 1)

\* one goroutine creates groups, asks for the histogram and observes
HistogramStep(p) ==
    \/ \E typ \in Types, labels \in LabelInputs : NewMetricsCall(p, typ, labels)
    \/ isExclusionBody(p)
    \/ NewMetricsLock(p)
    \/ NewMetricsBody(p)
    \/ ObservedHistogram(p)
    \/ HistogramUpdate(p)

NextHistogram == HistogramStep(Caller)

SpecHistogram == Init /\ [][NextHistogram]_vars

\* one goroutine creates groups from label maps of every size and resets the
\* store
NamesStep(p) ==
    \/ \E typ \in Types, labels \in NameLabelInputs : NewMetricsCall(p, typ, labels)
    \/ isExclusionBody(p)
    \/ NewMetricsLock(p)
    \/ NewMetricsBody(p)
    \/ ResetAllCall(p)
    \/ ResetAllUnregister(p)
    \/ ResetAllBody(p)

NextNames == NamesStep(Caller)

SpecNames == Init /\ [][NextNames]_vars

\* two goroutines create groups and ask the group they hold for its sorted
\* labels, in every interleaving
SortedStep(p) ==
    \/ \E typ \in Types, labels \in LabelInputs : NewMetricsCall(p, typ, labels)
    \/ isExclusionBody(p)
    \/ NewMetricsLock(p)
    \/ NewMetricsBody(p)
    \/ SortedLabelsCall(p)
    \/ SortedLabelsCached(p)
    \/ SortedLabelsCompute(p)
    \/ SortedLabelsStoreKeys(p)
    \/ SortedLabelsStoreVals(p)

NextSorted == \E p \in Procs : SortedStep(p)

SpecSorted == Init /\ [][NextSorted]_vars

(***************************************************************************)
(* Vocabulary of the properties.                                           *)
(***************************************************************************)
\* goroutine p has returned from NewMetrics and made no call since
AfterNewMetrics(p) == pc[p] = "idle" /\ call[p].op = "NewMetrics"

\* ... and was handed a tracked *metrics
Tracked(p) == AfterNewMetrics(p) /\ ret[p].kind = "metrics"

\* ... which no ResetAll has dropped from the store since
Live(p) == Tracked(p) /\ ~objs[ret[p].id].dropped

SameRequest(p, q) == call[p].typ = call[q].typ /\ call[p].labels = call[q].labels

\* the exclusion policy of store matches the label set
PolicyMatches(store, labels) ==
    \/ store.rejectAll = TRUE
    \/ \E i \in 1..Len(store.exclusionLabels) : store.exclusionLabels[i] \in DOMAIN labels

\* the step is goroutine p leaving the program point at
Leaves(p, at) == pc[p] = at /\ pc'[p] # at

\* the step is goroutine p returning from the call whose last point is at
Returns(p, at) == pc[p] = at /\ pc'[p] = "idle"

(***************************************************************************)
(* C1.  Callers of NewMetrics with the same type and labels, with no       *)
(* ResetAll since, are all handed the same instance, and that instance is  *)
(* the one entry the store holds for the identity, whatever the            *)
(* interleaving of the calls.                                              *)
(***************************************************************************)
C1_SingleWinner ==
    \A p, q \in Procs :
        (Live(p) /\ Live(q) /\ SameRequest(p, q)) =>
            /\ ret[p].id = ret[q].id
            /\ call[p].name \in DOMAIN defaultStore.metrics
            /\ defaultStore.metrics[call[p].name] = ret[p].id
            /\ \A n \in DOMAIN defaultStore.metrics :
                  defaultStore.metrics[n] = ret[p].id => n = call[p].name

C1_Witness ==
    /\ Live("p1") /\ Live("p2") /\ SameRequest("p1", "p2")
    /\ ret["p1"].id = ret["p2"].id
    /\ Len(objs) = 1

(***************************************************************************)
(* C2.  When NewMetrics finds an entry under the full name, it returns that*)
(* entry and changes neither the store's map nor any instance or           *)
(* instrument, so the counters reached through the returned handle are the *)
(* ones incremented through the earlier handle.                            *)
(***************************************************************************)
C2_ExistingReturned ==
    [][\A p \in Procs :
        (/\ Leaves(p, "NewMetrics")
         /\ \E iter \in IterOrders(DOMAIN call[p].labels) :
               fullName(call[p].typ, call[p].labels, iter) \in DOMAIN defaultStore.metrics)
        => /\ \A iter \in IterOrders(DOMAIN call[p].labels) :
                 LET name == fullName(call[p].typ, call[p].labels, iter)
                 IN  /\ name \in DOMAIN defaultStore.metrics
                     /\ ret'[p] = MetricsRef(defaultStore.metrics[name])
           /\ held'[p] = ret'[p]
           /\ defaultStore'.metrics = defaultStore.metrics
           /\ objs' = objs
           /\ insts' = insts]_vars

\* a second NewMetrics has returned the instance whose counter "x" stands at 1
C2_Witness ==
    /\ Live(Caller)
    /\ DOMAIN objs[ret[Caller].id].registry # {}
    /\ \E k \in DOMAIN objs[ret[Caller].id].registry :
          /\ insts[objs[ret[Caller].id].registry[k]].kind = "Counter"
          /\ insts[objs[ret[Caller].id].registry[k]].n = 1

(***************************************************************************)
(* C3.  Identity determinism: the full name does not depend on the order   *)
(* in which the label map is iterated, and two NewMetrics calls with the   *)
(* same type and the same key-value pairs, iterated in different orders,   *)
(* return the same instance.                                               *)
(***************************************************************************)
C3_IdentityDeterminism ==
    /\ \A p \in Procs :
          Tracked(p) =>
             \A iter \in IterOrders(DOMAIN call[p].labels) :
                fullName(call[p].typ, call[p].labels, iter) = call[p].name
    /\ \A p, q \in Procs :
          (Live(p) /\ Live(q) /\ SameRequest(p, q) /\ call[p].iter # call[q].iter) =>
             /\ call[p].name = call[q].name
             /\ ret[p] = ret[q]

C3_Witness ==
    /\ Live("p1") /\ Live("p2") /\ SameRequest("p1", "p2")
    /\ call["p1"].iter # call["p2"].iter
    /\ Cardinality(DOMAIN call["p1"].labels) = maxLabelCount
    /\ ret["p1"] = ret["p2"]

(***************************************************************************)
(* C4.  NewMetrics returns errLabelCountExceeded exactly when the label    *)
(* set has more than 10 entries (10 are accepted, and there is no other    *)
(* error), and such a call changes nothing: not the store, its policy, the *)
(* instances, the instruments, nor the handle the caller holds.            *)
(***************************************************************************)
C4_LabelLimit ==
    /\ [](\A p \in Procs :
            AfterNewMetrics(p) =>
               (ret[p].kind = "err" <=> Cardinality(DOMAIN call[p].labels) > maxLabelCount))
    /\ [][\A p \in Procs :
            (/\ call'[p] # call[p]
             /\ call'[p].op = "NewMetrics"
             /\ Cardinality(DOMAIN call'[p].labels) > maxLabelCount)
            => /\ ret'[p].kind = "err"
               /\ pc' = pc
               /\ UNCHANGED <<defaultStore, objs, insts, held>>]_vars

\* 11 labels were refused while rejectAll was set; 10 labels were accepted
C4_Witness ==
    /\ AfterNewMetrics("p1")
    /\ Cardinality(DOMAIN call["p1"].labels) = maxLabelCount + 1
    /\ ret["p1"].kind = "err"
    /\ defaultStore.rejectAll
    /\ Tracked("p2")
    /\ Cardinality(DOMAIN call["p2"].labels) = maxLabelCount

(***************************************************************************)
(* C5.  When the policy matches the request at the exclusion check,        *)
(* NewMetrics returns a no-op Metrics and leaves the store's map, the      *)
(* instances and the instruments as they are; and no use of a no-op        *)
(* instrument changes anything GetAll can reach.                           *)
(***************************************************************************)
C5_ExcludedIsNoOp ==
    [][\A p \in Procs :
        /\ (Leaves(p, "isExclusion") /\ PolicyMatches(defaultStore, call[p].labels))
           => /\ ret'[p].kind = "nil"
              /\ held'[p] = ret'[p]
              /\ pc'[p] = "idle"
              /\ defaultStore'.metrics = defaultStore.metrics
              /\ objs' = objs
              /\ insts' = insts
        /\ (pc[p] = "idle" /\ ret'[p].kind = "nilinst")
           => UNCHANGED <<defaultStore, objs, insts>>]_vars

\* a label key is excluded, the caller holds a no-op Metrics and one of its
\* instruments, and a tracked instance is in the store
C5_Witness ==
    /\ ~defaultStore.rejectAll
    /\ held[Caller].kind = "nil"
    /\ PolicyMatches(defaultStore, held[Caller].labels)
    /\ ret[Caller].kind = "nilinst"
    /\ DOMAIN defaultStore.metrics # {}

(***************************************************************************)
(* C6.  rejectAll is a latch: from a NewMetrics call that began with       *)
(* rejectAll set until a ResetAll completes, rejectAll stays set whatever  *)
(* SetStatsMatcher calls are made, the call does not get past the          *)
(* exclusion check, and it returns a no-op Metrics.                        *)
(***************************************************************************)
C6_RejectAllLatch ==
    \A p \in Procs :
        obs[p] =>
            /\ defaultStore.rejectAll
            /\ pc[p] \in {"idle", "isExclusion"}
            /\ (AfterNewMetrics(p) /\ Cardinality(DOMAIN call[p].labels) <= maxLabelCount)
               => ret[p].kind = "nil"

\* a NewMetrics that began under rejectAll has returned a no-op Metrics, and
\* the SetStatsMatcher(false, _) that followed has left rejectAll set
C6_Witness ==
    /\ AfterNewMetrics("p2") /\ obs["p2"] /\ ret["p2"].kind = "nil"
    /\ pc["p1"] = "idle" /\ call["p1"].op = "SetStatsMatcher" /\ ~call["p1"].all
    /\ defaultStore.exclusionLabels # <<>>
    /\ defaultStore.rejectAll

(***************************************************************************)
(* C7.  When ResetAll returns, the store's map is empty and the policy     *)
(* accepts everything (rejectAll false, no exclusion labels), so that no   *)
(* label set of at most 10 entries is excluded; a GetAll of an empty map   *)
(* returns an empty slice, and a NewMetrics that is not excluded and finds *)
(* no entry stores a tracked instance.                                     *)
(***************************************************************************)
C7_ResetClears ==
    [][\A p \in Procs :
        /\ Leaves(p, "ResetAll")
           => /\ defaultStore'.metrics = EmptyMap
              /\ defaultStore'.rejectAll = FALSE
              /\ defaultStore'.exclusionLabels = <<>>
              /\ \A labels \in LabelInputs : ~PolicyMatches(defaultStore', labels)
        /\ (Leaves(p, "GetAll") /\ defaultStore.metrics = EmptyMap)
           => ret'[p] = [kind |-> "list", items |-> <<>>]
        /\ (Leaves(p, "isExclusion") /\ ~PolicyMatches(defaultStore, call[p].labels))
           => pc'[p] = "NewMetricsLock"
        /\ (Leaves(p, "NewMetrics") /\ defaultStore.metrics = EmptyMap)
           => /\ ret'[p].kind = "metrics"
              /\ DOMAIN defaultStore'.metrics = {call'[p].name}
              /\ defaultStore'.metrics[call'[p].name] = ret'[p].id
              /\ ~objs'[ret'[p].id].dropped]_vars

\* ResetAll has returned after an instance was created under a policy that
\* rejects everything and a counter of it was incremented
C7_Witness ==
    /\ pc[Caller] = "idle" /\ call[Caller].op = "ResetAll"
    /\ defaultStore.metrics = EmptyMap
    /\ \E id \in DOMAIN objs : objs[id].dropped
    /\ \E i \in DOMAIN insts : insts[i].n = 1

(***************************************************************************)
(* C8.  The statement refuted by the code: NewMetrics never inserts an     *)
(* entry in a state whose policy excludes the labels of the new entry.     *)
(* (isExclusion releases its read lock before NewMetrics takes the write   *)
(* lock, and a SetStatsMatcher can run in between.)                        *)
(***************************************************************************)
C8_InsertRespectsPolicy ==
    [][\A n \in DOMAIN defaultStore'.metrics \ DOMAIN defaultStore.metrics :
          ~PolicyMatches(defaultStore, objs'[defaultStore'.metrics[n]].labels)]_vars

(***************************************************************************)
(* C9.  SetStatsMatcher changes only the policy fields of the store: the   *)
(* map, every instance and its registry, every instrument value and the    *)
(* handles the callers hold are unchanged, also when the new policy        *)
(* excludes the labels of a stored instance.                               *)
(***************************************************************************)
C9_SetStatsMatcherFrame ==
    [][\A p \in Procs :
        (Leaves(p, "SetStatsMatcher") \/ (pc[p] = "idle" /\ pc'[p] = "SetStatsMatcher"))
        => /\ defaultStore'.metrics = defaultStore.metrics
           /\ objs' = objs
           /\ insts' = insts
           /\ held' = held]_vars

\* SetStatsMatcher has returned; the policy now excludes the labels of a
\* stored instance, whose counter still stands at 1
C9_Witness ==
    /\ pc[Caller] = "idle" /\ call[Caller].op = "SetStatsMatcher"
    /\ \E n \in DOMAIN defaultStore.metrics :
          LET m == objs[defaultStore.metrics[n]]
          IN  /\ PolicyMatches(defaultStore, m.labels)
              /\ \E k \in DOMAIN m.registry :
                    insts[m.registry[k]].kind = "Counter" /\ insts[m.registry[k]].n = 1

(***************************************************************************)
(* C10.  The statement refuted by the code: no call of Counter, Gauge or   *)
(* Histogram on a tracked Metrics panics.  (GetOrRegister returns the      *)
(* instrument registered under the name whatever its kind, and the type    *)
(* assertion on it panics when the kind differs.)                          *)
(***************************************************************************)
C10_NoPanic == \A p \in Procs : pc[p] # "panic"

(***************************************************************************)
(* C11.  Instrument creation within a *metrics is idempotent, also with    *)
(* two goroutines sharing the group: a request for a name that is          *)
(* registered with the requested kind returns the registered instrument    *)
(* and changes no registry and no instrument value; a request for a name   *)
(* that is not registered registers one new instrument, at 0, in that      *)
(* group alone; a registered instrument is never replaced or removed by a  *)
(* request or an update; an update changes one instrument only;            *)
(* and no instrument is registered twice, so the same name in two groups   *)
(* names two instruments.                                                  *)
(***************************************************************************)
C11_InstrumentIdempotent ==
    /\ [](\A i, j \in DOMAIN objs :
            \A k \in DOMAIN objs[i].registry, l \in DOMAIN objs[j].registry :
                objs[i].registry[k] = objs[j].registry[l] => (i = j /\ k = l))
    /\ [][/\ \A id \in DOMAIN objs : \A k \in DOMAIN objs[id].registry :
               /\ k \in DOMAIN objs'[id].registry
               /\ objs'[id].registry[k] = objs[id].registry[k]
          /\ \A p \in Procs :
               (ret'[p] # ret[p] /\ ret'[p].kind = "inst") =>
                  LET g == held[p].id
                      key == call'[p].key
                  IN  /\ key \in DOMAIN objs'[g].registry
                      /\ objs'[g].registry[key] = ret'[p].id
                      /\ insts'[ret'[p].id].kind = call'[p].op
                      /\ \A id \in DOMAIN objs : id # g => objs'[id] = objs[id]
                      /\ IF key \in DOMAIN objs[g].registry
                         THEN /\ ret'[p].id = objs[g].registry[key]
                              /\ insts' = insts
                              /\ objs' = objs
                         ELSE /\ insts'[ret'[p].id].n = 0
                              /\ ret'[p].id \notin DOMAIN insts
                              /\ \A i \in DOMAIN insts : insts'[i] = insts[i]
                              /\ DOMAIN objs'[g].registry =
                                    DOMAIN objs[g].registry \cup {key}
          /\ \A i \in DOMAIN insts :
               \/ insts'[i] = insts[i]
               \/ \A j \in DOMAIN insts : j # i => insts'[j] = insts[j]]_vars

\* both goroutines hold the same group and were handed the same counter;
\* the second request found it at the value the first had driven it to
C11_Witness ==
    /\ held["p1"].kind = "metrics" /\ held["p2"] = held["p1"]
    /\ ret["p1"].kind = "inst" /\ ret["p2"] = ret["p1"]
    /\ call["p1"].op = "Counter" /\ call["p2"].op = "Counter"
    /\ insts[ret["p1"].id].n = 1
    /\ objs[held["p1"].id].registry[call["p1"].key] = ret["p1"].id
    /\ Len(insts) = 1

(***************************************************************************)
(* C12.  GetAll returns a snapshot.  The slice it returns holds every      *)
(* instance the map points to when GetAll runs, each once, and nothing     *)
(* else; and it is a copy: while the caller makes no further call, no step *)
(* of another goroutine (a NewMetrics that inserts, a ResetAll that empties*)
(* the map) changes the slice it was handed.                               *)
(***************************************************************************)
C12_GetAllSnapshot ==
    [][\A p \in Procs :
        /\ Leaves(p, "GetAll")
           => /\ ret'[p].kind = "list"
              /\ Len(ret'[p].items) = Cardinality(DOMAIN defaultStore.metrics)
              /\ {ret'[p].items[i] : i \in 1..Len(ret'[p].items)} =
                    {defaultStore.metrics[n] : n \in DOMAIN defaultStore.metrics}
              /\ \A i, j \in 1..Len(ret'[p].items) :
                    ret'[p].items[i] = ret'[p].items[j] => i = j
        /\ (/\ ret[p].kind = "list"
            /\ pc[p] = "idle" /\ pc'[p] = "idle"
            /\ call'[p] = call[p])
           => ret'[p] = ret[p]]_vars

\* goroutine p1 still has the two instances GetAll handed it, after a
\* ResetAll of goroutine p2 has emptied the map
C12_Witness ==
    /\ pc["p1"] = "idle" /\ ret["p1"].kind = "list"
    /\ Len(ret["p1"].items) = 2
    /\ ret["p1"].items[1] # ret["p1"].items[2]
    /\ pc["p2"] = "idle" /\ call["p2"].op = "ResetAll"
    /\ defaultStore.metrics = EmptyMap

(***************************************************************************)
(* C13.  A histogram handed out by a *metrics never retains more than 100  *)
(* samples, however many observations are made of it (1000 here), and      *)
(* retains as many samples as observations were made while these are at    *)
(* most 100.                                                               *)
(***************************************************************************)
C13_ReservoirBound ==
    \A i \in DOMAIN insts :
        insts[i].kind = "Histogram" =>
            /\ insts[i].retained <= 100
            /\ insts[i].n <= 100 => insts[i].retained = insts[i].n

\* the observations have reached the bound and 100 samples are retained
C13_Witness ==
    \E i \in DOMAIN insts :
        /\ insts[i].kind = "Histogram"
        /\ insts[i].n = MaxObservations
        /\ insts[i].n > 100
        /\ insts[i].retained = 100

(***************************************************************************)
(* C14.  The identity string.                                              *)
(***************************************************************************)
\* the key of the label map that has i - 1 keys below it
KeyOfRank(labels, i) ==
    CHOOSE k \in DOMAIN labels :
        Cardinality({j \in DOMAIN labels : StrLess(j, k)}) = i - 1

RECURSIVE DotKeyDotValue(_, _)
\* ".<key>.<value>" for the keys of rank i and above, in ascending order
DotKeyDotValue(labels, i) ==
    IF i > Cardinality(DOMAIN labels) THEN <<>>
    ELSE LET k == KeyOfRank(labels, i)
         IN  <<Dot>> \o k \o <<Dot>> \o labels[k] \o DotKeyDotValue(labels, i + 1)

\* C14 as stated, refuted by the code: the name NewMetrics computes is the
\* type followed by ".<key>.<value>" for each label in ascending key order,
\* for every label map of 0 to 10 entries, so that the name of a type with
\* no labels is the type itself.  (fullName always appends "." to the type
\* before the joined pairs.)
C14_IdentityAsClaimed ==
    \A p \in Procs :
        Tracked(p) => call[p].name = call[p].typ \o DotKeyDotValue(call[p].labels, 1)

\* C14 as amended: the name NewMetrics computes is the type followed by
\* ".<key>.<value>" for each label in ascending key order, for every label
\* map of 1 to 10 entries; for an empty label map it is the type followed
\* by one ".".
C14_Identity ==
    \A p \in Procs :
        Tracked(p) =>
            call[p].name =
                IF DOMAIN call[p].labels = {}
                THEN call[p].typ \o <<Dot>>
                ELSE call[p].typ \o DotKeyDotValue(call[p].labels, 1)

\* NewMetrics("a", {}) has stored an instance under "a."
C14_Witness ==
    /\ Tracked(Caller)
    /\ DOMAIN call[Caller].labels = {}
    /\ call[Caller].name = <<97, 46>>
    /\ call[Caller].name \in DOMAIN defaultStore.metrics

(***************************************************************************)
(* C15.  Exclusion is evaluated before the lookup.  When the store holds   *)
(* an instance for the type and labels of a NewMetrics call and the policy *)
(* matches the labels at the exclusion check, the call returns a no-op     *)
(* Metrics, not the stored instance, without taking the write lock; the    *)
(* stored instance stays in the map, unchanged.                            *)
(***************************************************************************)
C15_ExclusionBeforeLookup ==
    [][\A p \in Procs : \A n \in DOMAIN defaultStore.metrics :
        (/\ Leaves(p, "isExclusion")
         /\ PolicyMatches(defaultStore, call[p].labels)
         /\ objs[defaultStore.metrics[n]].typ = call[p].typ
         /\ objs[defaultStore.metrics[n]].labels = call[p].labels)
        => /\ ret'[p].kind = "nil"
           /\ ret'[p] # MetricsRef(defaultStore.metrics[n])
           /\ held'[p] = ret'[p]
           /\ pc'[p] = "idle"
           /\ defaultStore'.mutex.writer = None
           /\ n \in DOMAIN defaultStore'.metrics
           /\ defaultStore'.metrics[n] = defaultStore.metrics[n]
           /\ objs'[defaultStore.metrics[n]] = objs[defaultStore.metrics[n]]]_vars

\* an instance is stored for {"b": "c", "d": "e"}, the exclusion list names
\* "d", and a NewMetrics for the same type and labels has returned a no-op
C15_Witness ==
    /\ AfterNewMetrics("p1") /\ ret["p1"].kind = "nil"
    /\ ~defaultStore.rejectAll
    /\ PolicyMatches(defaultStore, call["p1"].labels)
    /\ \E n \in DOMAIN defaultStore.metrics :
          /\ objs[defaultStore.metrics[n]].typ = call["p1"].typ
          /\ objs[defaultStore.metrics[n]].labels = call["p1"].labels

(***************************************************************************)
(* C16.  ResetAll unregisters the instruments of every stored instance     *)
(* before it replaces the map.  When ResetAll returns, Each on an instance *)
(* that was stored visits nothing; a GetAll that follows does not return   *)
(* such an instance; and a NewMetrics that follows never returns one: for  *)
(* the same type and labels it allocates a new instance, with an empty     *)
(* registry, and stores it.                                                *)
(***************************************************************************)
C16_ResetTearsDown ==
    [][\A p \in Procs :
        /\ Returns(p, "ResetAll")
           => /\ \A n \in DOMAIN defaultStore.metrics :
                    Each(objs'[defaultStore.metrics[n]]) = {}
              /\ DOMAIN defaultStore'.metrics = {}
        /\ Returns(p, "GetAll")
           => \A i \in 1..Len(ret'[p].items) : ~objs[ret'[p].items[i]].dropped
        /\ Returns(p, "NewMetrics")
           => /\ ret'[p].kind = "metrics"
              /\ ~objs'[ret'[p].id].dropped
              /\ defaultStore'.metrics[call'[p].name] = ret'[p].id
              /\ (\E id \in DOMAIN objs :
                     /\ objs[id].dropped
                     /\ objs[id].typ = call[p].typ
                     /\ objs[id].labels = call[p].labels
                     /\ DOMAIN defaultStore.metrics = {})
                 => /\ ret'[p].id \notin DOMAIN objs
                    /\ Each(objs'[ret'[p].id]) = {}]_vars

\* an instance with a counter at 1 was reset away; it now has no instruments,
\* and NewMetrics for the same type and labels has returned another instance
C16_Witness ==
    /\ Live(Caller)
    /\ \E id \in DOMAIN objs :
          /\ objs[id].dropped
          /\ id # ret[Caller].id
          /\ objs[id].typ = call[Caller].typ
          /\ objs[id].labels = call[Caller].labels
          /\ Each(objs[id]) = {}
    /\ Each(objs[ret[Caller].id]) = {}
    /\ \E i \in DOMAIN insts : insts[i].n = 1

(***************************************************************************)
(* C17.  The statement refuted by the code: every SortedLabels call, under *)
(* any interleaving of concurrent callers, returns the keys of the labels  *)
(* in ascending order and, in the parallel positions, their values.        *)
(* (labelKeys and labelVals are read and written without a lock; a caller  *)
(* that finds both pointers set while another caller is still storing the  *)
(* header of labelVals returns a values slice of length 0.)                *)
(***************************************************************************)
C17_SortedLabelsConsistent ==
    \A p \in Procs :
        (pc[p] = "idle" /\ ret[p].kind = "sorted") =>
            LET labels == objs[held[p].id].labels
                n == Cardinality(DOMAIN labels)
            IN  /\ ret[p].keys = [i \in 1..n |-> KeyOfRank(labels, i)]
                /\ ret[p].values = [i \in 1..n |-> labels[KeyOfRank(labels, i)]]

(***************************************************************************)
(* C18.  The statement refuted by the code: the full name is injective     *)
(* over (type, labels), so the *metrics NewMetrics(t, L) returns has Type()*)
(* equal to t and Labels() equal to L, and two requests that differ in     *)
(* type or in a key-value pair are never handed the same instance.         *)
(* (fullName joins type, keys and values with "." and escapes nothing:     *)
(* {"b": "c.d.e"} and {"b": "c", "d": "e"} give the same name.)            *)
(***************************************************************************)
C18_IdentityInjective ==
    \A p \in Procs :
        Tracked(p) =>
            /\ objs[ret[p].id].typ = call[p].typ
            /\ objs[ret[p].id].labels = call[p].labels

(***************************************************************************)
(* C19.  In every reachable state each entry of the store's map points to  *)
(* a *metrics that no ResetAll has dropped, that has at most 10 labels,    *)
(* and whose own type and labels give, by fullName, the key it is stored   *)
(* under (what that string is made of is the subject of C14); an           *)
(* entry is never pointed elsewhere; the map gains entries only in the     *)
(* step in which a NewMetrics call returns (the one entry it names), and   *)
(* loses entries only in the step in which a ResetAll returns.             *)
(***************************************************************************)
C19_TableWellFormed ==
    /\ [](\A n \in DOMAIN defaultStore.metrics :
            LET id == defaultStore.metrics[n]
            IN  /\ id \in DOMAIN objs
                /\ ~objs[id].dropped
                /\ Cardinality(DOMAIN objs[id].labels) <= maxLabelCount
                /\ n = fullName(objs[id].typ, objs[id].labels,
                                 SetToSeq(DOMAIN objs[id].labels)))
    /\ [][/\ \A n \in DOMAIN defaultStore.metrics \cap DOMAIN defaultStore'.metrics :
               defaultStore'.metrics[n] = defaultStore.metrics[n]
          /\ (DOMAIN defaultStore'.metrics \ DOMAIN defaultStore.metrics # {})
             => \E p \in Procs :
                   /\ Returns(p, "NewMetrics")
                   /\ DOMAIN defaultStore'.metrics =
                         DOMAIN defaultStore.metrics \cup {call'[p].name}
                   /\ ret'[p] = MetricsRef(defaultStore'.metrics[call'[p].name])
          /\ (DOMAIN defaultStore.metrics \ DOMAIN defaultStore'.metrics # {})
             => \E p \in Procs : Returns(p, "ResetAll")]_vars

\* two entries, one of them with 10 labels, are in the map while the policy
\* rejects everything
C19_Witness ==
    /\ Cardinality(DOMAIN defaultStore.metrics) = 2
    /\ \E n \in DOMAIN defaultStore.metrics :
          Cardinality(DOMAIN objs[defaultStore.metrics[n]].labels) = maxLabelCount
    /\ defaultStore.rejectAll
    /\ \A p \in Procs : pc[p] = "idle"

\* goroutine p is inside a call, at a point from which its next step can be
\* taken whatever the other goroutines do
Running(p) == pc[p] \in {"isExclusion", "NewMetrics", "SetStatsMatcher", "GetAll", "ResetAll"}

\* goroutine p holds the store's mutex, as the writer or as a reader
HoldsMutex(p) == defaultStore.mutex.writer = p \/ p \in defaultStore.mutex.readers

(***************************************************************************)
(* C20.  The statement refuted by the code: every call returns, with the   *)
(* store's mutex released.  A goroutine that is not inside a call does not *)
(* hold the mutex; a goroutine inside a call can take its next step, or    *)
(* waits for the mutex while the mutex is free or its holder can take a    *)
(* step.  (The store's own calls all return; the call of Counter, Gauge or *)
(* Histogram that finds the name registered with another kind panics, see  *)
(* C10, and does not return.)                                              *)
(***************************************************************************)
C20_EveryCallReturns ==
    \A p \in Procs :
        /\ pc[p] = "idle" => ~HoldsMutex(p)
        /\ pc[p] # "idle" =>
              \/ Running(p)
              \/ /\ pc[p] = "NewMetricsLock"
                 /\ \/ defaultStore.mutex = [writer |-> None, readers |-> {}]
                    \/ \E q \in Procs : HoldsMutex(q) /\ Running(q)

====
